---- MODULE Spec2Model ----
(***************************************************************************)
(* Model of packages/to-markdown/index.js: the renderer that turns a       *)
(* custom elements manifest into an mdast tree of headings, tables and     *)
(* <hr/> separators.                                                        *)
(*                                                                         *)
(* JavaScript values are tagged records: undefined, null, strings,         *)
(* arrays, objects (one record field per property that is present) and     *)
(* functions (terms of the predicate combinators of lib/fp.js).  mdast     *)
(* nodes are objects with a type field.                                    *)
(***************************************************************************)
EXTENDS Integers, Sequences, FiniteSets, TLC

VARIABLES
  targs,      \* arguments of the table builder under test: title, names, _decls, opts
  toffset,    \* options.headingOffset of the table builder calls (Undefined when not set)
  tresults,   \* per visibility policy: has the builder been called, and what it returned
  manifest,   \* the manifest being rendered
  options,    \* the options of the render call
  pc,         \* position of customElementsManifestToMarkdown: "module", "decl", "done"
  mi,         \* index of the module the modules.flatMap callback is at
  di,         \* index of the declaration the declarations.flatMap callback is at
  modNodes,   \* makeModuleDoc: nodes of the array literal built so far
  nodes,      \* the value returned by the last per-declaration callback
  children,   \* result of modules.flatMap so far (before the final filter)
  tree        \* the root node, Undefined until the render is finished

tvars == <<targs, toffset, tresults>>
dvars == <<manifest, options, pc, mi, di, modNodes, nodes, children, tree>>
vars == <<targs, toffset, tresults, manifest, options, pc, mi, di, modNodes, nodes, children, tree>>

----------------------------------------------------------------------------
(* Bounds of the model *)

MaxRows == 3        \* longest row array handed to the table builder
MaxCols == 2        \* longest column list handed to the table builder
MaxOffset == 1      \* largest options.headingOffset
MaxMembers == 3     \* longest decl.members
MaxModules == 2     \* longest manifest.modules

----------------------------------------------------------------------------
(* JavaScript values *)

Undefined == [tag |-> "undefined"]
Null == [tag |-> "null"]
Str(s) == [tag |-> "string", s |-> s]
Num(n) == [tag |-> "number", n |-> n]
Arr(items) == [tag |-> "array", items |-> items]

\* x?.[f]: the property f of x, undefined when x is not an object or has no f
Get(x, f) == IF x.tag = "object" /\ f \in DOMAIN x THEN x[f] ELSE Undefined

\* JavaScript truthiness
Truthy(x) ==
  CASE x.tag \in {"undefined", "null"} -> FALSE
    [] x.tag = "string" -> x.s # ""
    [] x.tag = "number" -> x.n # 0
    [] OTHER -> TRUE

\* a ?? b
Coalesce(a, b) == IF a.tag \in {"undefined", "null"} THEN b ELSE a

\* the elements of an array value, the empty sequence for anything else
Items(a) == IF a.tag = "array" THEN a.items ELSE <<>>

----------------------------------------------------------------------------
(* lib/fp.js: predicates and combinators, as terms and their evaluation.    *)
(* The file is imported by index.js (lines 2-9) but is not part of the      *)
(* source tree at hand: the predicates are taken to be what their names    *)
(* and the design say, and total (isPrivate and isProtected answer false   *)
(* on an absent value, as the optional superclass requires).               *)

identity == [tag |-> "function", op |-> "identity"]
isPrivate == [tag |-> "function", op |-> "isPrivate"]
isProtected == [tag |-> "function", op |-> "isProtected"]
not(p) == [tag |-> "function", op |-> "not", p |-> p]
or(p, q) == [tag |-> "function", op |-> "or", p |-> p, q |-> q]
kindIs(test) == [tag |-> "function", op |-> "kindIs", test |-> test]

RECURSIVE Test(_, _)
\* Truthiness of f(x), which is all Array.prototype.filter looks at
Test(f, x) ==
  CASE f.op = "identity" -> Truthy(x)
    [] f.op = "isPrivate" -> Get(x, "privacy") = Str("private")
    [] f.op = "isProtected" -> Get(x, "privacy") = Str("protected")
    [] f.op = "not" -> ~ Test(f.p, x)
    [] f.op = "or" -> Test(f.p, x) \/ Test(f.q, x)
    [] f.op = "kindIs" -> Get(x, "kind") = Str(f.test)

\* xs.filter(f)
filter(xs, f) == SelectSeq(xs, LAMBDA x : Test(f, x))

isLengthy(xs) == Len(xs) > 0

repeat(length, x) == [i \in 1..length |-> x]

capital(name) ==
  CASE name = "name" -> "Name"
    [] name = "module" -> "Module"
    [] name = "package" -> "Package"
    [] name = "privacy" -> "Privacy"
    [] name = "description" -> "Description"
    [] name = "kind" -> "Kind"
    [] OTHER -> name

----------------------------------------------------------------------------
(* mdast-builder nodes *)

text(v) == [tag |-> "object", type |-> "text", value |-> v]
inlineCode(v) == [tag |-> "object", type |-> "inlineCode", value |-> v]
html(v) == [tag |-> "object", type |-> "html", value |-> v]
heading(depth, kids) == [tag |-> "object", type |-> "heading", depth |-> depth, children |-> kids]
tableCell(kid) == [tag |-> "object", type |-> "tableCell", children |-> <<kid>>]
tableRow(kids) == [tag |-> "object", type |-> "tableRow", children |-> kids]
table(align, kids) == [tag |-> "object", type |-> "table", align |-> align, children |-> kids]
root(kids) == [tag |-> "object", type |-> "root", children |-> kids]

line == html(Str("<hr/>"))

----------------------------------------------------------------------------
(* Descriptors *)

RECURSIVE JoinParams(_)
JoinParams(ps) ==
  IF Len(ps) = 0 THEN ""
  ELSE LET param == Head(ps)
           nm == Get(param, "name")
           ty == Get(Get(param, "type"), "text")
           one == (IF nm.tag = "string" THEN nm.s ELSE "undefined")
                    \o (IF Truthy(ty) THEN ": " \o ty.s ELSE "")
       IN  IF Len(ps) = 1 THEN one ELSE one \o ", " \o JoinParams(Tail(ps))

formatParameters(x) ==
  LET ps == Get(x, "parameters")
  IN  IF ps.tag = "array" THEN Str(JoinParams(ps.items)) ELSE Undefined

DECLARATION == [tag |-> "object", heading |-> "Declaration", get |-> "DECLARATION"]
DEFAULT == [tag |-> "object", heading |-> "Default", get |-> "DEFAULT", cellType |-> "inlineCode"]
ATTR_FIELD == [tag |-> "object", heading |-> "Field", get |-> "ATTR_FIELD"]
INHERITANCE == [tag |-> "object", heading |-> "Inherited From", get |-> "INHERITANCE"]
MODULE_ == [tag |-> "object", heading |-> "Module", get |-> "MODULE"]
PACKAGE == [tag |-> "object", heading |-> "Package", get |-> "PACKAGE"]
PARAMETERS == [tag |-> "object", heading |-> "Parameters", get |-> "PARAMETERS", cellType |-> "inlineCode"]
RETURN == [tag |-> "object", heading |-> "Return", get |-> "RETURN", cellType |-> "inlineCode"]
TYPE == [tag |-> "object", heading |-> "Type", get |-> "TYPE", cellType |-> "inlineCode"]

defaultDescriptor(name) ==
  [tag |-> "object", heading |-> capital(name), get |-> name]

getDescriptor(x) ==
  IF x.tag = "string" THEN defaultDescriptor(x.s) ELSE x

\* descriptor.get(x)
get(d, x) ==
  CASE d.get = "DECLARATION" -> Coalesce(Get(Get(x, "declaration"), "name"), Str(""))
    [] d.get = "DEFAULT" -> Get(x, "default")
    [] d.get = "ATTR_FIELD" -> Get(x, "fieldName")
    [] d.get = "INHERITANCE" -> Coalesce(Get(Get(x, "inheritedFrom"), "name"), Str(""))
    [] d.get = "MODULE" -> Coalesce(Get(Get(x, "declaration"), "module"), Str(""))
    [] d.get = "PACKAGE" -> Coalesce(Get(Get(x, "declaration"), "package"), Str(""))
    [] d.get = "PARAMETERS" -> formatParameters(x)
    [] d.get = "RETURN" -> Coalesce(Get(Get(Get(x, "return"), "type"), "text"), Get(x, "return"))
    [] d.get = "TYPE" -> Coalesce(Get(Get(x, "type"), "text"), Str(""))
    [] OTHER -> Get(x, d.get)

\* cellType(v)
cell(cellType, v) == IF cellType = "inlineCode" THEN inlineCode(v) ELSE text(v)

getColumn(decls, d) ==
  [heading |-> d.heading,
   cellType |-> IF "cellType" \in DOMAIN d THEN d.cellType ELSE "text",
   values |-> [i \in 1..Len(decls) |-> get(d, decls[i])]]

getHeading(x) == tableCell(text(Str(x.heading)))

getCell(i, col) ==
  tableCell(IF Truthy(col.values[i]) THEN cell(col.cellType, col.values[i]) ELSE text(Str("")))

\* getRows leaving out the cells that have no value
getRows_skipMissing(columns, i) ==
  tableRow(SelectSeq([c \in 1..Len(columns) |-> getCell(i, columns[c])],
                     LAMBDA c : c # tableCell(text(Str("")))))

getRows(columns, i) ==
  tableRow([c \in 1..Len(columns) |-> getCell(i, columns[c])])

----------------------------------------------------------------------------
(* Table assembly *)

\* options?.headingOffset ?? 0
headingOffset(opts) == Coalesce(Get(opts, "headingOffset"), Num(0)).n

\* the filters of 'hidden' and 'details' exchanged
by_swapped(opts, topts) ==
  IF Get(topts, "filter").tag = "function" THEN Get(topts, "filter")
  ELSE IF Get(opts, "private") = Str("hidden") THEN not(or(isPrivate, isProtected))
  ELSE IF Get(opts, "private") = Str("details") THEN not(isPrivate)
  ELSE identity

\* 'hidden' dropping protected records as well
by_hiddenDropsProtected(opts, topts) ==
  IF Get(topts, "filter").tag = "function" THEN Get(topts, "filter")
  ELSE IF Get(opts, "private") = Str("hidden") THEN not(or(isPrivate, isProtected))
  ELSE IF Get(opts, "private") = Str("details") THEN not(or(isPrivate, isProtected))
  ELSE identity

\* the filter tableWithTitle selects
by(opts, topts) ==
  IF Get(topts, "filter").tag = "function" THEN Get(topts, "filter")
  ELSE IF Get(opts, "private") = Str("hidden") THEN not(isPrivate)
  ELSE IF Get(opts, "private") = Str("details") THEN not(or(isPrivate, isProtected))
  ELSE identity

\* the absent entries are not dropped after the filter
survivors_keepAbsent(opts, _decls, topts) ==
  filter(Items(Coalesce(_decls, Arr(<<>>))), by(opts, topts))

\* (_decls ?? []).filter(by).filter(identity)
survivors(opts, _decls, topts) ==
  filter(filter(Items(Coalesce(_decls, Arr(<<>>))), by(opts, topts)), identity)

\* tableWithTitle without the early return on an empty row set
tableWithTitle_noEmptyCheck(opts, title, names, _decls, topts) ==
  LET headingLevel == Coalesce(Get(topts, "headingLevel"), Num(3)).n
      decls == survivors(opts, _decls, topts)
      columns == [c \in 1..Len(names) |-> getColumn(decls, getDescriptor(names[c]))]
      contentRows == [i \in 1..Len(decls) |-> getRows(columns, i)]
  IN  << heading(headingLevel + headingOffset(opts), <<text(Str(title))>>),
         table(repeat(Len(columns), Null),
               <<tableRow([c \in 1..Len(columns) |-> getHeading(columns[c])])>> \o contentRows) >>

tableWithTitle(opts, title, names, _decls, topts) ==
  LET headingLevel == Coalesce(Get(topts, "headingLevel"), Num(3)).n
      decls == survivors(opts, _decls, topts)
      columns == [c \in 1..Len(names) |-> getColumn(decls, getDescriptor(names[c]))]
      contentRows == [i \in 1..Len(decls) |-> getRows(columns, i)]
  IN  IF ~ isLengthy(decls) THEN <<>>
      ELSE << heading(headingLevel + headingOffset(opts), <<text(Str(title))>>),
              table(repeat(Len(columns), Null),
                    <<tableRow([c \in 1..Len(columns) |-> getHeading(columns[c])])>> \o contentRows) >>

----------------------------------------------------------------------------
(* Declaration sections and module documents *)

declarationHeading(opts, decl) ==
  LET kind == Get(decl, "kind")
      tagName == Get(decl, "tagName")
  IN  heading(2 + headingOffset(opts),
              << text(Str((IF kind.tag = "string" THEN kind.s ELSE "undefined") \o ": ")),
                 inlineCode(Get(decl, "name")) >>
              \o (IF Truthy(tagName) THEN << text(Str(", ")), inlineCode(tagName) >> ELSE <<>>))

\* const { kind, members = [] } = decl
membersOf(decl) == Items(Coalesce(Get(decl, "members"), Arr(<<>>)))
fieldsOf(decl) == filter(membersOf(decl), kindIs("field"))
methodsOf(decl) == filter(membersOf(decl), kindIs("method"))

FieldColumns == << Str("name"), Str("privacy"), TYPE, DEFAULT, Str("description"), INHERITANCE >>
MethodColumns == << Str("name"), Str("privacy"), Str("description"), PARAMETERS, RETURN, INHERITANCE >>
RefColumns == << Str("name"), Str("module"), Str("package") >>

NoOpts == Undefined

\* the array literal of the per-declaration callback, filtered
mainNodes(opts, decl) ==
  LET kind == Get(decl, "kind")
      makeTable(title, names, rows) == tableWithTitle(opts, title, names, rows, NoOpts)
  IN  filter(
        << IF kind \notin {Str("mixin"), Str("class")} THEN Null ELSE declarationHeading(opts, decl) >>
        \o makeTable("Superclass", RefColumns, Arr(<<Get(decl, "superclass")>>))
        \o makeTable("Mixins", RefColumns, Get(decl, "mixins"))
        \o (IF kind = Str("mixin")
              THEN makeTable("Parameters", <<Str("name"), TYPE, DEFAULT, Str("description")>>, Get(decl, "parameters"))
              ELSE <<>>)
        \o makeTable("Fields", FieldColumns, Arr(fieldsOf(decl)))
        \o makeTable("Methods", MethodColumns, Arr(methodsOf(decl)))
        \o makeTable("Events", <<Str("name"), TYPE, Str("description"), INHERITANCE>>, Get(decl, "events"))
        \o makeTable("Attributes", <<Str("name"), ATTR_FIELD, INHERITANCE>>, Get(decl, "attributes"))
        \o makeTable("CSS Properties", <<Str("name"), DEFAULT, Str("description")>>, Get(decl, "cssProperties"))
        \o makeTable("Parts", <<Str("name"), Str("description")>>, Get(decl, "parts"))
        \o makeTable("Slots", <<Str("name"), Str("description")>>, Get(decl, "slots")),
        identity)

\* the Private API tables built without the explicit identity filter
privateApi_noBypass(opts, decl) ==
  LET privFields == filter(fieldsOf(decl), or(isPrivate, isProtected))
      privMethods == filter(methodsOf(decl), or(isPrivate, isProtected))
  IN  IF Get(opts, "private") = Str("details") /\ (isLengthy(privFields) \/ isLengthy(privMethods))
        THEN << html(Str("<details><summary>Private API</summary>")) >>
             \o tableWithTitle(opts, "Fields", FieldColumns, Arr(privFields), NoOpts)
             \o tableWithTitle(opts, "Methods", MethodColumns, Arr(privMethods), NoOpts)
             \o << html(Str("</details>")) >>
        ELSE <<>>

\* the nodes the 'details' branch pushes
privateApi(opts, decl) ==
  LET privFields == filter(fieldsOf(decl), or(isPrivate, isProtected))
      privMethods == filter(methodsOf(decl), or(isPrivate, isProtected))
      bypass == [tag |-> "object", filter |-> identity]
  IN  IF Get(opts, "private") = Str("details") /\ (isLengthy(privFields) \/ isLengthy(privMethods))
        THEN << html(Str("<details><summary>Private API</summary>")) >>
             \o tableWithTitle(opts, "Fields", FieldColumns, Arr(privFields), bypass)
             \o tableWithTitle(opts, "Methods", MethodColumns, Arr(privMethods), bypass)
             \o << html(Str("</details>")) >>
        ELSE <<>>

\* the separator pushed whether or not a node was emitted
declNodes_alwaysLine(opts, decl) ==
  Append(mainNodes(opts, decl) \o privateApi(opts, decl), line)

\* the value the per-declaration callback returns
declNodes(opts, decl) ==
  LET ns == mainNodes(opts, decl) \o privateApi(opts, decl)
  IN  IF Len(ns) > 0 THEN Append(ns, line) ELSE ns

declarationsOf(mod) == Items(Coalesce(Get(mod, "declarations"), Arr(<<>>)))
exportsOf(mod) == Items(Coalesce(Get(mod, "exports"), Arr(<<>>)))

\* makeModuleDoc returns undefined
moduleIsEmpty(mod) == Len(declarationsOf(mod)) = 0 /\ Len(exportsOf(mod)) = 0

moduleHeading(opts, mod) ==
  heading(1 + headingOffset(opts), << inlineCode(Get(mod, "path")), text(Str(":")) >>)

\* the module-level tables that close the array literal of makeModuleDoc
moduleTail(opts, mod) ==
  LET variables == filter(declarationsOf(mod), kindIs("variable"))
      functions == filter(declarationsOf(mod), kindIs("function"))
      level2 == [tag |-> "object", headingLevel |-> Num(2)]
  IN  tableWithTitle(opts, "Variables", <<Str("name"), Str("description"), TYPE>>, Arr(variables), level2)
      \o (IF Len(variables) > 0 THEN <<line>> ELSE <<>>)
      \o tableWithTitle(opts, "Functions", <<Str("name"), Str("description"), PARAMETERS, RETURN>>, Arr(functions), level2)
      \o (IF Len(functions) > 0 THEN <<line>> ELSE <<>>)
      \o tableWithTitle(opts, "Exports", <<Str("kind"), Str("name"), DECLARATION, MODULE_, PACKAGE>>, Get(mod, "exports"), level2)

----------------------------------------------------------------------------
(* Inputs *)

Obj == [tag |-> "object"]

\* the property f with value v, no property when v is undefined
Prop(f, v) == IF v = Undefined THEN Obj ELSE (f :> v) @@ Obj

SeqsUpTo(S, n) == UNION { [1..k -> S] : k \in 0..n }

\* the records of a sequence named by their position
Named(xs, prefix) ==
  [i \in 1..Len(xs) |->
     IF xs[i].tag = "object" THEN ("name" :> Str(prefix \o ToString(i))) @@ xs[i] ELSE xs[i]]

Privacies == { Undefined, Str("public"), Str("protected"), Str("private") }
Policies == { Undefined, Str("hidden"), Str("details") }
Offsets == { Undefined } \cup { Num(n) : n \in 1..MaxOffset }

\* the options of a render: absent altogether, or an object with either property optional
OptionsSet ==
  { Undefined } \cup { Prop("private", p) @@ Prop("headingOffset", o) : p \in Policies, o \in Offsets }

\* rows of the table builder under test: absent entries and records of any privacy
RowShapes == { Undefined } \cup { Prop("privacy", p) : p \in Privacies }
RowArrays == { Undefined } \cup { Arr(Named(xs, "r")) : xs \in SeqsUpTo(RowShapes, MaxRows) }
ColumnLists == { SubSeq(FieldColumns, 1, k) : k \in 0..MaxCols }
TableOpts ==
  { Undefined, Obj,
    [tag |-> "object", filter |-> identity],
    [tag |-> "object", filter |-> or(isPrivate, isProtected)],
    [tag |-> "object", headingLevel |-> Num(2)] }

PolicyName(p) == IF p = Undefined THEN "none" ELSE p.s
PolicyNames == { PolicyName(p) : p \in Policies }

\* members of a declaration
MemberShapes == { ("kind" :> Str(k)) @@ Prop("privacy", p) : k \in {"field", "method"}, p \in Privacies }
MemberArrays == { Arr(Named(xs, "m")) : xs \in SeqsUpTo(MemberShapes, MaxMembers) }
Kinds == { "class", "mixin", "variable", "function" }

\* a reference to a superclass or mixin, a parameter, an event ...
Ref == [tag |-> "object", name |-> Str("Base"), module |-> Str("base.js")]
Plain == [tag |-> "object", name |-> Str("x"), type |-> [tag |-> "object", text |-> Str("string")]]
Tagged(privacy) == [tag |-> "object", name |-> Str("y"), privacy |-> Str(privacy)]
Export == [tag |-> "object", kind |-> Str("js"), name |-> Str("x"),
           declaration |-> [tag |-> "object", name |-> Str("x"), module |-> Str("x.js")]]

\* the arrays one optional property of a declaration may hold
AuxArrays == { Arr(<<Plain>>), Arr(<<Tagged("private")>>), Arr(<<Tagged("protected")>>), Arr(<<Undefined, Plain>>), Arr(<<>>) }
AuxProps == { "mixins", "parameters", "events", "attributes", "cssProperties", "parts", "slots" }

\* declarations that exercise the member tables
MemberDecls ==
  { ("kind" :> Str(k)) @@ ("members" :> ms) @@ Obj : k \in Kinds, ms \in MemberArrays }

\* declarations that exercise the other tables: at most one of the optional arrays is set
AuxDecls ==
  { ("kind" :> Str(k)) @@ Prop("superclass", sc) @@ Prop("tagName", tn) @@ Prop("privacy", pr)
      @@ Prop("members", ms) @@ aux
    : k \in Kinds, sc \in { Undefined, Ref }, tn \in { Undefined, Str("x-y") },
      pr \in { Undefined, Str("private") },
      ms \in { Undefined, Arr(<<[tag |-> "object", kind |-> Str("field"), name |-> Str("m1"), privacy |-> Str("private")]>>) },
      aux \in { Obj } \cup { (f :> a) @@ Obj : f \in AuxProps, a \in AuxArrays } }

\* modules with one declaration
SingleModules ==
  { ("declarations" :> Arr(Named(<<d>>, "D"))) @@ Obj : d \in MemberDecls \cup AuxDecls }

Variable(pr) == ("kind" :> Str("variable")) @@ Prop("privacy", pr) @@ Plain
Function(pr) == ("kind" :> Str("function")) @@ Prop("privacy", pr) @@ Plain
Class == [tag |-> "object", kind |-> Str("class"),
          members |-> Arr(<<[tag |-> "object", kind |-> Str("field"), name |-> Str("m1")]>>)]

\* modules that exercise the module-level tables and the assembly of the root
ModuleShapes ==
  { Undefined, Obj,
    [tag |-> "object", declarations |-> Arr(<<>>), exports |-> Arr(<<>>)],
    [tag |-> "object", exports |-> Arr(<<Export>>)],
    [tag |-> "object", exports |-> Arr(<<("privacy" :> Str("private")) @@ Export>>)],
    [tag |-> "object", declarations |-> Arr(<<[tag |-> "object", kind |-> Str("event")]>>), exports |-> Arr(<<Undefined>>)],
    [tag |-> "object", declarations |-> Arr(Named(<<Variable(Undefined)>>, "D"))],
    [tag |-> "object", declarations |-> Arr(Named(<<Variable(Str("private"))>>, "D"))],
    [tag |-> "object", declarations |-> Arr(Named(<<Function(Undefined)>>, "D"))],
    [tag |-> "object", declarations |-> Arr(Named(<<Function(Str("protected"))>>, "D"))],
    [tag |-> "object", declarations |-> Arr(Named(<<Class, Variable(Undefined), Class, Function(Undefined)>>, "D")),
                       exports |-> Arr(<<Export>>)] }

\* the path of a module is its position in the manifest
Pathed(ms) ==
  [i \in 1..Len(ms) |->
     IF ms[i].tag = "object" THEN ("path" :> Str("mod" \o ToString(i) \o ".js")) @@ ms[i] ELSE ms[i]]

Manifests ==
  { [tag |-> "object", modules |-> Arr(Pathed(ms))]
    : ms \in SeqsUpTo(ModuleShapes, MaxModules) \cup { <<m>> : m \in SingleModules } }

----------------------------------------------------------------------------
(* The table builder, called once per visibility policy on the same arguments *)

NotCalled == [called |-> FALSE, out |-> <<>>]

TableOptions(policy) ==
  Prop("private", IF policy = "none" THEN Undefined ELSE Str(policy)) @@ Prop("headingOffset", toffset)

InitTable ==
  /\ targs \in { [title |-> "Rows", names |-> ns, decls |-> rows, opts |-> o]
                 : ns \in ColumnLists, rows \in RowArrays, o \in TableOpts }
  /\ toffset \in Offsets
  /\ tresults = [p \in PolicyNames |-> NotCalled]
  /\ manifest = [tag |-> "object", modules |-> Arr(<<>>)]
  /\ options = Undefined
  /\ pc = "done" /\ mi = 1 /\ di = 1
  /\ modNodes = <<>> /\ nodes = <<>> /\ children = <<>>
  /\ tree = root(<<>>)

CallTable(policy) ==
  /\ ~ tresults[policy].called
  /\ tresults' = [tresults EXCEPT ![policy] =
       [called |-> TRUE,
        out |-> tableWithTitle(TableOptions(policy), targs.title, targs.names, targs.decls, targs.opts)]]
  /\ UNCHANGED <<targs, toffset>>
  /\ UNCHANGED dvars

NextTable == \E policy \in PolicyNames : CallTable(policy)

SpecTable == InitTable /\ [][NextTable]_vars

----------------------------------------------------------------------------
(* customElementsManifestToMarkdown *)

modules == Items(Get(manifest, "modules"))
mod == modules[mi]
decl == declarationsOf(mod)[di]

Init ==
  /\ manifest \in Manifests
  /\ options \in OptionsSet
  /\ pc = "module" /\ mi = 1 /\ di = 1
  /\ modNodes = <<>> /\ nodes = <<>> /\ children = <<>>
  /\ tree = Undefined
  /\ targs = [title |-> "Rows", names |-> <<>>, decls |-> Undefined, opts |-> Undefined]
  /\ toffset = Undefined
  /\ tresults = [p \in PolicyNames |-> NotCalled]

\* makeModuleDoc returns undefined: flatMap keeps it as one element
ModuleAbsent ==
  /\ pc = "module" /\ mi <= Len(modules)
  /\ moduleIsEmpty(mod)
  /\ children' = Append(children, Undefined)
  /\ mi' = mi + 1
  /\ UNCHANGED <<manifest, options, pc, di, modNodes, nodes, tree>>
  /\ UNCHANGED tvars

\* makeModuleDoc starts its array with the path heading
ModuleHeading ==
  /\ pc = "module" /\ mi <= Len(modules)
  /\ ~ moduleIsEmpty(mod)
  /\ modNodes' = << moduleHeading(options, mod) >>
  /\ di' = 1
  /\ nodes' = <<>>
  /\ pc' = "decl"
  /\ UNCHANGED <<manifest, options, mi, children, tree>>
  /\ UNCHANGED tvars

\* one call of the declarations.flatMap callback
DeclCallback ==
  /\ pc = "decl" /\ di <= Len(declarationsOf(mod))
  /\ nodes' = declNodes(options, decl)
  /\ modNodes' = modNodes \o nodes'
  /\ di' = di + 1
  /\ UNCHANGED <<manifest, options, pc, mi, children, tree>>
  /\ UNCHANGED tvars

\* makeModuleDoc closes its array, filters it and returns; flatMap flattens it
ModuleTail ==
  /\ pc = "decl" /\ di > Len(declarationsOf(mod))
  /\ modNodes' = filter(modNodes \o moduleTail(options, mod), identity)
  /\ children' = children \o modNodes'
  /\ mi' = mi + 1
  /\ pc' = "module"
  /\ UNCHANGED <<manifest, options, di, nodes, tree>>
  /\ UNCHANGED tvars

\* the root built from the flatMap result as it is
Root_noFilter ==
  /\ pc = "module" /\ mi > Len(modules)
  /\ tree' = root(children)
  /\ pc' = "done"
  /\ UNCHANGED <<manifest, options, mi, di, modNodes, nodes, children>>
  /\ UNCHANGED tvars

\* the flatMap result is filtered and wrapped in the root
Root ==
  /\ pc = "module" /\ mi > Len(modules)
  /\ tree' = root(filter(children, identity))
  /\ pc' = "done"
  /\ UNCHANGED <<manifest, options, mi, di, modNodes, nodes, children>>
  /\ UNCHANGED tvars

Next == ModuleAbsent \/ ModuleHeading \/ DeclCallback \/ ModuleTail \/ Root

Spec == Init /\ [][Next]_vars

----------------------------------------------------------------------------
(* Reading the output *)

NodeType(n) == IF "type" \in DOMAIN n THEN n.type ELSE "none"

\* the title of a table heading, "" for any other node
TitleOf(n) ==
  IF NodeType(n) = "heading" /\ Len(n.children) = 1 /\ NodeType(n.children[1]) = "text"
    THEN n.children[1].value.s ELSE ""

\* the text of a cell; "" is the empty text cell
CellText(c) ==
  IF Len(c.children) = 1 /\ NodeType(c.children[1]) \in {"text", "inlineCode"}
       /\ c.children[1].value.tag = "string"
    THEN c.children[1].value.s ELSE "?"

DataRows(tbl) == Tail(tbl.children)

\* the first cell of every data row
RowNames(tbl) ==
  [r \in 1..Len(DataRows(tbl)) |->
     IF Len(DataRows(tbl)[r].children) >= 1 THEN CellText(DataRows(tbl)[r].children[1]) ELSE "?"]

Range(xs) == { xs[i] : i \in 1..Len(xs) }

PrivacyOf(x) == IF x.tag = "object" /\ "privacy" \in DOMAIN x THEN x.privacy.s ELSE "public"
NameOf(x) == IF x.tag = "object" /\ "name" \in DOMAIN x THEN x.name.s ELSE "?"

\* what a policy keeps, stated on the privacy of a record
PolicyKeeps(policy, x) ==
  CASE policy = "hidden" -> PrivacyOf(x) # "private"
    [] policy = "details" -> PrivacyOf(x) \notin {"private", "protected"}
    [] OTHER -> TRUE

----------------------------------------------------------------------------
(* Claims about the table builder (SpecTable) *)

InputRows == IF targs.decls.tag = "array" THEN targs.decls.items ELSE <<>>
HasExplicitFilter == targs.opts.tag = "object" /\ "filter" \in DOMAIN targs.opts

\* a row survives: it is not absent and the active filter keeps it
RowSurvives(policy, x) ==
  /\ x.tag = "object"
  /\ IF HasExplicitFilter
       THEN (targs.opts.filter = identity \/ PrivacyOf(x) \in {"private", "protected"})
       ELSE PolicyKeeps(policy, x)

Surviving(policy) == SelectSeq(InputRows, LAMBDA x : RowSurvives(policy, x))

IsSection(out) == Len(out) = 2 /\ NodeType(out[1]) = "heading" /\ NodeType(out[2]) = "table"

\* C1: the table builder returns exactly a heading followed by a table if and
\* only if at least one row survives the active filter and the dropping of
\* absent entries; otherwise it returns the empty sequence.
C1_SectionIffRows ==
  \A p \in PolicyNames :
    tresults[p].called =>
      IF Len(Surviving(p)) > 0 THEN IsSection(tresults[p].out) ELSE tresults[p].out = <<>>

\* the same rows give a section under no policy and nothing under 'hidden'
C1_Witness ==
  /\ tresults["none"].called /\ IsSection(tresults["none"].out)
  /\ tresults["hidden"].called /\ tresults["hidden"].out = <<>>
  /\ Len(InputRows) > 0

\* the value a row has for a column of the Fields columns, "" when missing
Expected(col, x) ==
  CASE col = Str("name") -> NameOf(x)
    [] col = Str("privacy") -> (IF "privacy" \in DOMAIN x THEN x.privacy.s ELSE "")
    [] OTHER -> ""

\* C2: every emitted table is rectangular: one header row plus one data row per
\* surviving row, every row with as many cells as configured columns, and a
\* missing value is an empty text cell in its position.
C2_Rectangular ==
  \A p \in PolicyNames :
    (tresults[p].called /\ tresults[p].out # <<>>) =>
      LET tbl == tresults[p].out[2]
          rows == Surviving(p)
      IN  /\ Len(tbl.children) = Len(rows) + 1
          /\ Len(tbl.align) = Len(targs.names)
          /\ \A r \in 1..Len(tbl.children) : Len(tbl.children[r].children) = Len(targs.names)
          /\ \A r \in 1..Len(rows) : \A c \in 1..Len(targs.names) :
               /\ r + 1 <= Len(tbl.children) /\ c <= Len(tbl.children[r + 1].children)
               /\ CellText(tbl.children[r + 1].children[c]) = Expected(targs.names[c], rows[r])
               /\ Expected(targs.names[c], rows[r]) = "" =>
                    tbl.children[r + 1].children[c] = tableCell(text(Str("")))

\* a table with two columns and a row that has no privacy
C2_Witness ==
  /\ tresults["none"].called /\ tresults["none"].out # <<>>
  /\ Len(targs.names) = 2
  /\ Len(tresults["none"].out[2].children) >= 3
  /\ \E r \in 1..Len(Surviving("none")) : "privacy" \notin DOMAIN Surviving("none")[r]

\* the names of the rows a call retained (the count when there is no column)
Retained(p) == IF tresults[p].out = <<>> THEN <<>> ELSE RowNames(tresults[p].out[2])

SubRows(p, q) ==
  (tresults[p].called /\ tresults[q].called) =>
     /\ Len(Retained(p)) <= Len(Retained(q))
     /\ Len(targs.names) > 0 => Range(Retained(p)) \subseteq Range(Retained(q))

\* C4 as stated: the rows retained under 'hidden' are a subset of those
\* retained under 'details', which are a subset of those retained by default.
C4_Original == SubRows("hidden", "details") /\ SubRows("details", "none")

\* C4 (amended): the rows retained under 'details' are a subset of those
\* retained under 'hidden', which are a subset of those retained by default.
C4_Monotonic == SubRows("details", "hidden") /\ SubRows("hidden", "none")

\* a protected row: kept under 'hidden' and by default, dropped under 'details'
C4_Witness ==
  /\ tresults["none"].called /\ tresults["hidden"].called /\ tresults["details"].called
  /\ ~ HasExplicitFilter
  /\ Len(Retained("details")) < Len(Retained("hidden"))
  /\ Len(Retained("hidden")) < Len(Retained("none"))

----------------------------------------------------------------------------
(* Claims about declaration sections (Spec) *)

\* the per-declaration callback has just returned `nodes` for SectionDecl
SectionReturned == pc = "decl" /\ di > 1
SectionDecl == declarationsOf(mod)[di - 1]

RenderPolicy ==
  IF options.tag = "object" /\ "private" \in DOMAIN options THEN options.private.s ELSE "none"

DetailsOpen == html(Str("<details><summary>Private API</summary>"))
DetailsClose == html(Str("</details>"))

Positions(ns, n) == { i \in 1..Len(ns) : ns[i] = n }
Min(S) == CHOOSE i \in S : \A j \in S : i <= j

HasAppendix(ns) == Positions(ns, DetailsOpen) # {}

\* the nodes before the Private API block
MainPart(ns) == IF HasAppendix(ns) THEN SubSeq(ns, 1, Min(Positions(ns, DetailsOpen)) - 1) ELSE ns

\* the nodes between the opening and the closing details node
AppendixPart(ns) ==
  IF HasAppendix(ns) /\ Positions(ns, DetailsClose) # {}
    THEN SubSeq(ns, Min(Positions(ns, DetailsOpen)) + 1, Min(Positions(ns, DetailsClose)) - 1)
    ELSE <<>>

\* where the tables titled `title` stand in ns
TablesAt(ns, title) ==
  { i \in 2..Len(ns) : NodeType(ns[i]) = "table" /\ TitleOf(ns[i - 1]) = title }

\* the names of the data rows of the table titled `title`, <<>> when there is none
RowsOf(ns, title) ==
  IF TablesAt(ns, title) = {} THEN <<>> ELSE RowNames(ns[Min(TablesAt(ns, title))])

AllTables(ns) == { i \in 1..Len(ns) : NodeType(ns[i]) = "table" }

InputMembers(d) ==
  IF d.tag = "object" /\ "members" \in DOMAIN d /\ d.members.tag = "array" THEN d.members.items ELSE <<>>
KindOf(x) == IF x.tag = "object" /\ "kind" \in DOMAIN x THEN x.kind.s ELSE "?"
IsHiddenKind(x) == PrivacyOf(x) \in {"private", "protected"}

Names(xs) == [i \in 1..Len(xs) |-> NameOf(xs[i])]
MembersKept(d, kind, policy) ==
  Names(SelectSeq(InputMembers(d), LAMBDA m : KindOf(m) = kind /\ PolicyKeeps(policy, m)))
MembersHidden(d, kind) ==
  Names(SelectSeq(InputMembers(d), LAMBDA m : KindOf(m) = kind /\ IsHiddenKind(m)))

\* C3: for a class or mixin, the data rows of the main Fields table and of the
\* main Methods table are, in input order, the members of that kind the policy
\* keeps: all but private under 'hidden', all but private and protected under
\* 'details', all under no policy; under 'hidden' a private member is in no table.
C3_MainMemberTables ==
  (SectionReturned /\ KindOf(SectionDecl) \in {"class", "mixin"}) =>
     /\ Cardinality(TablesAt(MainPart(nodes), "Fields")) <= 1
     /\ Cardinality(TablesAt(MainPart(nodes), "Methods")) <= 1
     /\ RowsOf(MainPart(nodes), "Fields") = MembersKept(SectionDecl, "field", RenderPolicy)
     /\ RowsOf(MainPart(nodes), "Methods") = MembersKept(SectionDecl, "method", RenderPolicy)
     /\ RenderPolicy = "hidden" =>
          \A i \in AllTables(nodes) : \A m \in Range(InputMembers(SectionDecl)) :
             PrivacyOf(m) = "private" => NameOf(m) \notin Range(RowNames(nodes[i]))

\* two public fields and a private field of a class under 'hidden': two data rows
C3_Witness ==
  /\ SectionReturned /\ KindOf(SectionDecl) = "class" /\ RenderPolicy = "hidden"
  /\ Len(InputMembers(SectionDecl)) = 3
  /\ \A m \in Range(InputMembers(SectionDecl)) : KindOf(m) = "field"
  /\ Cardinality({ i \in 1..3 : PrivacyOf(InputMembers(SectionDecl)[i]) = "private" }) = 1
  /\ Cardinality({ i \in 1..3 : PrivacyOf(InputMembers(SectionDecl)[i]) = "protected" }) = 0
  /\ Len(RowsOf(MainPart(nodes), "Fields")) = 2

\* C5: the Private API block is emitted if and only if the policy is 'details'
\* and some field or method is protected or private; it follows the main tables,
\* holds at least one table, its Fields and Methods tables hold exactly the
\* protected and private fields and methods in input order, and under 'details'
\* every field and method is in the main table or in the block, never in both.
C5_PrivateApi ==
  SectionReturned =>
    LET d == SectionDecl
        app == AppendixPart(nodes)
        close == Positions(nodes, DetailsClose)
    IN  /\ HasAppendix(nodes) <=>
             (RenderPolicy = "details"
                /\ (MembersHidden(d, "field") # <<>> \/ MembersHidden(d, "method") # <<>>))
        /\ HasAppendix(nodes) =>
             /\ Cardinality(Positions(nodes, DetailsOpen)) = 1
             /\ close = { Len(nodes) - 1 }
             /\ AllTables(app) # {}
             /\ \A i \in 1..Len(app) : NodeType(app[i]) \in {"heading", "table"}
             /\ Cardinality(TablesAt(app, "Fields")) <= 1
             /\ Cardinality(TablesAt(app, "Methods")) <= 1
             /\ RowsOf(app, "Fields") = MembersHidden(d, "field")
             /\ RowsOf(app, "Methods") = MembersHidden(d, "method")
        /\ RenderPolicy = "details" =>
             \A m \in Range(InputMembers(d)) :
               LET inMain == NameOf(m) \in Range(RowsOf(MainPart(nodes), "Fields"))
                                             \cup Range(RowsOf(MainPart(nodes), "Methods"))
                   inApp == NameOf(m) \in Range(RowsOf(app, "Fields")) \cup Range(RowsOf(app, "Methods"))
               IN  inMain # inApp

\* a declaration with a main Fields table and a Private API block holding a method
C5_Witness ==
  /\ SectionReturned /\ RenderPolicy = "details"
  /\ HasAppendix(nodes)
  /\ Len(RowsOf(MainPart(nodes), "Fields")) >= 1
  /\ Len(RowsOf(AppendixPart(nodes), "Methods")) >= 1
  /\ Len(RowsOf(AppendixPart(nodes), "Fields")) >= 1

HasSuperclass(d) == d.tag = "object" /\ "superclass" \in DOMAIN d

\* C7: for a declaration without superclass the section is built under every
\* policy and holds no Superclass heading and no Superclass table.
C7_NoSuperclass ==
  (SectionReturned /\ ~ HasSuperclass(SectionDecl)) =>
     /\ \A i \in 1..Len(nodes) : TitleOf(nodes[i]) # "Superclass"
     /\ TablesAt(nodes, "Superclass") = {}

\* a class without superclass rendered under 'hidden': the section has its heading
C7_Witness ==
  /\ SectionReturned /\ ~ HasSuperclass(SectionDecl) /\ RenderPolicy = "hidden"
  /\ KindOf(SectionDecl) = "class" /\ Len(nodes) >= 2

IsDeclHeading(n) ==
  NodeType(n) = "heading" /\ Len(n.children) >= 2 /\ NodeType(n.children[2]) = "inlineCode"

\* C10: a declaration section is empty, or it ends with its only separator and
\* holds at least one other node (the heading, emitted only for a class or a
\* mixin, a table or the Private API block).
C10_TrailingSeparator ==
  SectionReturned =>
    /\ \A i \in 1..Len(nodes) : nodes[i].tag = "object"
    /\ nodes # <<>> =>
         /\ Len(nodes) >= 2
         /\ Positions(nodes, line) = { Len(nodes) }
    /\ (\E i \in 1..Len(nodes) : IsDeclHeading(nodes[i])) <=> KindOf(SectionDecl) \in {"class", "mixin"}
    /\ \A i \in 1..Len(nodes) : IsDeclHeading(nodes[i]) => i = 1

\* a variable that contributes nothing, after a class whose section ends with
\* the separator
C10_Witness ==
  /\ SectionReturned /\ KindOf(SectionDecl) = "variable"
  /\ nodes = <<>>
  /\ Len(modNodes) >= 3 /\ modNodes[Len(modNodes)] = line
  /\ IsDeclHeading(modNodes[2])

----------------------------------------------------------------------------
(* Claims about module documents and the root (Spec) *)

IsModuleHeading(n) ==
  NodeType(n) = "heading" /\ Len(n.children) = 2 /\ NodeType(n.children[1]) = "inlineCode"

\* the module and declaration headings of a node sequence, in order
Landmarks(ns) ==
  LET hs == SelectSeq(ns, LAMBDA n : n.tag = "object" /\ (IsModuleHeading(n) \/ IsDeclHeading(n)))
  IN  [i \in 1..Len(hs) |->
         IF IsModuleHeading(hs[i]) THEN "M:" \o hs[i].children[1].value.s
         ELSE "D:" \o hs[i].children[2].value.s]

InputArray(x, f) == IF x.tag = "object" /\ f \in DOMAIN x /\ x[f].tag = "array" THEN x[f].items ELSE <<>>
Contributes(m) == InputArray(m, "declarations") # <<>> \/ InputArray(m, "exports") # <<>>

RECURSIVE ExpectedLandmarks(_)
\* path of every module with a declaration or an export, each followed by the
\* names of its classes and mixins
ExpectedLandmarks(ms) ==
  IF ms = <<>> THEN <<>>
  ELSE LET m == Head(ms)
           ds == SelectSeq(InputArray(m, "declarations"), LAMBDA d : KindOf(d) \in {"class", "mixin"})
       IN  (IF Contributes(m)
              THEN << "M:" \o m.path.s >> \o [i \in 1..Len(ds) |-> "D:" \o NameOf(ds[i])]
              ELSE <<>>)
           \o ExpectedLandmarks(Tail(ms))

\* C6: the root holds, in manifest order, the nodes of the modules: nothing for
\* a module without declarations and exports, and for every other module a
\* sequence that starts with its path heading followed by its declaration
\* sections in order; no absent placeholder is among the root's children.
C6_RootAssembly ==
  pc = "done" =>
    /\ NodeType(tree) = "root"
    /\ \A i \in 1..Len(tree.children) : tree.children[i].tag = "object"
    /\ Landmarks(tree.children) = ExpectedLandmarks(modules)
    /\ tree.children # <<>> => IsModuleHeading(tree.children[1])

\* an empty module before a module with a class: the placeholder is dropped
C6_Witness ==
  /\ pc = "done" /\ Len(modules) = 2
  /\ ~ Contributes(modules[1]) /\ Contributes(modules[2])
  /\ Undefined \in Range(children)
  /\ Len(Landmarks(tree.children)) >= 3

PresentCount(xs) == Len(SelectSeq(xs, LAMBDA x : x.tag = "object"))

\* the module document of modules[mi - 1] has just been returned in modNodes
ModuleReturned ==
  /\ pc = "module" /\ mi > 1 /\ modNodes # <<>>
  /\ modules[mi - 1].tag = "object"
  /\ modNodes[1] = moduleHeading(options, modules[mi - 1])

\* C8: the Events, Attributes, CSS Properties, Parts and Slots tables and the
\* module-level Exports table have, under every policy, one data row for every
\* record of the input array that is not absent, whatever it carries.
C8_NoPrivacyFiltering ==
  /\ SectionReturned =>
       /\ Len(RowsOf(nodes, "Events")) = PresentCount(InputArray(SectionDecl, "events"))
       /\ Len(RowsOf(nodes, "Attributes")) = PresentCount(InputArray(SectionDecl, "attributes"))
       /\ Len(RowsOf(nodes, "CSS Properties")) = PresentCount(InputArray(SectionDecl, "cssProperties"))
       /\ Len(RowsOf(nodes, "Parts")) = PresentCount(InputArray(SectionDecl, "parts"))
       /\ Len(RowsOf(nodes, "Slots")) = PresentCount(InputArray(SectionDecl, "slots"))
  /\ ModuleReturned =>
       Len(RowsOf(modNodes, "Exports")) = PresentCount(InputArray(modules[mi - 1], "exports"))

\* in the module-level tail every separator closes a Variables or Functions
\* table, and each of these tables is followed by its separator
TailOk(t) ==
  /\ \A i \in 1..Len(t) :
       t[i] = line =>
         i >= 3 /\ NodeType(t[i - 1]) = "table" /\ TitleOf(t[i - 2]) \in {"Variables", "Functions"}
  /\ \A i \in TablesAt(t, "Variables") \cup TablesAt(t, "Functions") :
       i < Len(t) /\ t[i + 1] = line

\* C9: a module-level Variables or Functions table is followed by a separator
\* if and only if the table was emitted: no separator of the module-level tail
\* stands without its table.
C9_TailSeparators ==
  [][(pc = "decl" /\ pc' = "module") =>
       TailOk(SubSeq(modNodes', Len(modNodes) + 1, Len(modNodes')))]_vars

====
